---- MODULE Spec2Model ----
(***************************************************************************)
(* Model of the Vosk captions API server.                                  *)
(*                                                                         *)
(*   src/main.py          create_caption: single-flight admission, upload, *)
(*                        temp files, response and cleanup                 *)
(*   src/app/caption.py   process_video: probe, validation, extraction,    *)
(*                        transcription, filter building, hardware encode  *)
(*                        rounds (try_intel_arc_encoding), software encode *)
(*                                                                         *)
(* Every request slot r runs the handler create_caption; pc[r] is the      *)
(* position of that handler (or of the process_video call it is inside).   *)
(* External tools (vainfo, ffprobe, ffmpeg, the recogniser, the file       *)
(* system) are nondeterministic: each step draws the tool's outcome.       *)
(***************************************************************************)
EXTENDS Integers, Sequences, FiniteSets

\* ---------------------------------------------------------------- bounds
\* Number of request slots that may be in flight at the same time.
NumRequests == 2

\* MAX_FILE_SIZE of src/main.py:18 counted in upload chunks (the code reads
\* 1 MB chunks and allows 500 of them); scaled down.
MaxFileChunks == 1

\* Longest word list handed to create_drawtext_filter.
MaxWords == 2

\* Number of non-empty wf.readframes(4000) chunks of the audio file.
MaxChunks == 2

\* -------------------------------------------------------- program constants
\* caption.py:95  the fade of 0.05 s, in hundredths of a second.
FadeWindow == 5

\* try_intel_arc_encoding(..., max_retries: int = 3)
max_retries == 3

Requests == 1..NumRequests

\* A file on disk: missing, present with zero length, present with content.
FileStates == {"absent", "empty", "data"}

\* The hardware encode methods in the order the code nests them, and the
\* software encoder.
HwMethods == <<"vaapi_hybrid", "cpu_vaapi", "qsv">>
HwMethodSet == {HwMethods[i] : i \in 1..Len(HwMethods)}
Software == "libx264"

\* Outcome of one subprocess.run(..., timeout=600) of a hardware method:
\* return code 0, CalledProcessError, TimeoutExpired, any other exception.
HwOutcomes == {"ok", "nonzero", "timeout", "exception"}

\* Outcome of the software Popen/communicate block.
SwOutcomes == {"ok", "nonzero", "exception"}

\* Outcome of the vainfo probe.
ProbeOutcomes == {"intel_h264", "intel_no_h264", "non_intel", "nonzero",
                  "timeout", "not_found", "exception"}

VARIABLES
    processing_in_progress, \* main.py:40  the single-flight flag
    pc,                     \* position of each request's handler
    response,               \* HTTP status the handler produced ("none" before)
    file_size,              \* main.py:93  chunks received so far
    temp_input,             \* main.py:88  state of the job's temp input file
    temp_output,            \* main.py:89  state of the job's temp output file
    audio_file,             \* /app/debug_files/debug_audio.wav
    hardware_filter,        \* /app/debug_files/hardware_filter.txt exists
    software_filter,        \* /app/debug_files/software_filter.txt exists
    use_gpu,                \* caption.py:489
    probe,                  \* outcome of the vainfo probe of this job
    attempt,                \* caption.py:245 loop variable
    encodeLog,              \* encoder invocations of the running process_video
    lastOutcome,            \* outcome kind of the latest encoder invocation
    diagnostics,            \* per invocation: the file its output was saved to
    sleeps,                 \* number of time.sleep(2) backoffs taken
    success,                \* return value of process_video
    failStage,              \* stage in which process_video gave up
    filter_write_failed,    \* filter files this job could not write
    stagesRun,              \* pipeline stages process_video has invoked
    audio_tool,             \* how ffmpeg ended in extract_audio
    word_timings,           \* caption.py:506  result of transcribe_audio
    tr_pc,                  \* position inside transcribe_audio
    words,                  \* caption.py:174  the list transcribe_audio builds
    rec_results,            \* what the recogniser handed over, in order
    fl_pc,                  \* position between caption.py:510 and 589
    timed_words,            \* word_timings as passed to create_drawtext_filter
    filter_complex,         \* caption.py:511  the filter built from them
    hardware_filter_text,   \* content of hardware_filter.txt
    software_filter_text,   \* content of software_filter.txt
    commands,               \* encoder command lines built so far
    app_pc,                 \* src/app.py: position of each caption_video call
    app_input,              \* app.py:21  state of the temp input file
    app_output,             \* app.py:28  state of the temp output file
    app_returning,          \* what caption_video is about to return
    app_result              \* what the client received

vars == <<processing_in_progress, pc, response, file_size, temp_input,
          temp_output, audio_file, hardware_filter, software_filter,
          use_gpu, probe, attempt, encodeLog, lastOutcome, diagnostics, sleeps, success,
          failStage, filter_write_failed, stagesRun, audio_tool,
          word_timings, tr_pc, words, rec_results, fl_pc, timed_words,
          filter_complex, hardware_filter_text, software_filter_text,
          commands, app_pc, app_input, app_output, app_returning,
          app_result>>

\* variables local to one process_video activation
stageVars == <<stagesRun, audio_tool, word_timings>>
pvVars == <<use_gpu, probe, attempt, encodeLog, lastOutcome, diagnostics, sleeps, success,
            failStage, filter_write_failed, stageVars>>
fsShared == <<audio_file, hardware_filter, software_filter>>
tempVars == <<temp_input, temp_output>>

\* state of the handlers and of the files they share
handlerVars == <<processing_in_progress, pc, response, file_size, tempVars,
                 fsShared, pvVars>>
\* data inside transcribe_audio
transcriberVars == <<tr_pc, words, rec_results>>
\* data between create_drawtext_filter and the encoder command lines
filterVars == <<fl_pc, timed_words, filter_complex, hardware_filter_text,
                software_filter_text, commands>>
\* state of the caption_video handlers of src/app.py
appVars == <<app_pc, app_input, app_output, app_returning, app_result>>
dataVars == <<transcriberVars, filterVars, appVars>>

\* The handlers before the first request.
HandlerInit ==
    /\ processing_in_progress = FALSE
    /\ pc = [r \in Requests |-> "idle"]
    /\ response = [r \in Requests |-> "none"]
    /\ file_size = [r \in Requests |-> 0]
    /\ temp_input = [r \in Requests |-> "absent"]
    /\ temp_output = [r \in Requests |-> "absent"]
    /\ audio_file = "absent"
    /\ hardware_filter = FALSE
    /\ software_filter = FALSE
    /\ use_gpu = [r \in Requests |-> FALSE]
    /\ probe = [r \in Requests |-> "none"]
    /\ attempt = [r \in Requests |-> 0]
    /\ encodeLog = [r \in Requests |-> <<>>]
    /\ lastOutcome = [r \in Requests |-> "none"]
    /\ diagnostics = [r \in Requests |-> <<>>]
    /\ sleeps = [r \in Requests |-> 0]
    /\ success = [r \in Requests |-> FALSE]
    /\ failStage = [r \in Requests |-> "none"]
    /\ filter_write_failed = [r \in Requests |-> {}]
    /\ stagesRun = [r \in Requests |-> <<>>]
    /\ audio_tool = [r \in Requests |-> "none"]
    /\ word_timings = [r \in Requests |-> "none"]

\* transcribe_audio not entered.
TranscriberIdle ==
    /\ tr_pc = "idle"
    /\ words = <<>>
    /\ rec_results = <<>>

\* create_drawtext_filter not called.
FilterIdle ==
    /\ fl_pc = "idle"
    /\ timed_words = <<>>
    /\ filter_complex = <<>>
    /\ hardware_filter_text = "none"
    /\ software_filter_text = "none"
    /\ commands = <<>>

\* src/app.py before the first request.
AppInit ==
    /\ app_pc = [r \in Requests |-> "idle"]
    /\ app_input = [r \in Requests |-> "absent"]
    /\ app_output = [r \in Requests |-> "absent"]
    /\ app_returning = [r \in Requests |-> "none"]
    /\ app_result = [r \in Requests |-> "none"]

Init == HandlerInit /\ TranscriberIdle /\ FilterIdle /\ AppInit

\* ------------------------------------------------------------ src/main.py

\* Fault variant of admission: the flag is set without being checked.
admission_unchecked(flag) == [admitted |-> TRUE, flag |-> TRUE]

\* Fault variant of admission: the check sits inside the try block, so the
\* finally of the rejected request resets the flag.
admission_reject_resets(flag) ==
    IF flag THEN [admitted |-> FALSE, flag |-> FALSE]
            ELSE [admitted |-> TRUE, flag |-> TRUE]

\* main.py:67-73  the check and the set happen under processing_lock.
\* Returns the new flag and whether the request is admitted.
admission(flag) ==
    IF flag THEN [admitted |-> FALSE, flag |-> flag]
            ELSE [admitted |-> TRUE, flag |-> TRUE]

\* Fault variant of finally_reset: the reset is missing.
finally_reset_missing(flag) == flag

\* main.py:180-183  finally: the flag is reset on every exit of the try block.
finally_reset(flag) == FALSE

\* POST /caption arrives: admitted, or rejected with 429 before the try block.
Arrive(r) ==
    /\ pc[r] = "idle"
    /\ UNCHANGED dataVars
    /\ LET a == admission(processing_in_progress) IN
         /\ processing_in_progress' = a.flag
         /\ IF a.admitted
              THEN /\ pc' = [pc EXCEPT ![r] = "validate"]
                   /\ response' = response
              ELSE /\ pc' = [pc EXCEPT ![r] = "rejected"]
                   /\ response' = [response EXCEPT ![r] = "429"]
    /\ UNCHANGED <<file_size, tempVars, fsShared, pvVars>>

\* Fault variant of ValidateExtension: the temp files are created before
\* the filename is looked at.
ValidateExtension_after_temp_files(r) ==
    /\ pc[r] = "validate"
    /\ UNCHANGED dataVars
    /\ temp_input' = [temp_input EXCEPT ![r] = "empty"]
    /\ temp_output' = [temp_output EXCEPT ![r] = "empty"]
    /\ \E filename_ok \in BOOLEAN :
         IF filename_ok
           THEN /\ pc' = [pc EXCEPT ![r] = "upload"]
                /\ UNCHANGED <<response, processing_in_progress>>
           ELSE /\ pc' = [pc EXCEPT ![r] = "done"]
                /\ response' = [response EXCEPT ![r] = "400"]
                /\ processing_in_progress' = finally_reset(processing_in_progress)
    /\ UNCHANGED <<file_size, fsShared, pvVars>>

\* main.py:77-81  filename missing or extension not accepted: 400.
ValidateExtension(r) ==
    /\ pc[r] = "validate"
    /\ UNCHANGED dataVars
    /\ \E filename_ok \in BOOLEAN :
         IF filename_ok
           THEN /\ pc' = [pc EXCEPT ![r] = "create_temp"]
                /\ UNCHANGED <<response, processing_in_progress>>
           ELSE /\ pc' = [pc EXCEPT ![r] = "done"]
                /\ response' = [response EXCEPT ![r] = "400"]
                /\ processing_in_progress' = finally_reset(processing_in_progress)
    /\ UNCHANGED <<file_size, tempVars, fsShared, pvVars>>

\* main.py:88-93  both NamedTemporaryFile(delete=False) are created empty.
CreateTempFiles(r) ==
    /\ pc[r] = "create_temp"
    /\ UNCHANGED dataVars
    /\ temp_input' = [temp_input EXCEPT ![r] = "empty"]
    /\ temp_output' = [temp_output EXCEPT ![r] = "empty"]
    /\ file_size' = [file_size EXCEPT ![r] = 0]
    /\ pc' = [pc EXCEPT ![r] = "upload"]
    /\ UNCHANGED <<processing_in_progress, response, fsShared, pvVars>>

\* main.py:96-108  one non-empty chunk arrives; 413 when the total exceeds
\* MAX_FILE_SIZE (raised inside the with block: the files stay on disk).
ReadChunk(r) ==
    /\ pc[r] = "upload"
    /\ UNCHANGED dataVars
    /\ file_size[r] <= MaxFileChunks
    /\ IF file_size[r] + 1 > MaxFileChunks
         THEN /\ pc' = [pc EXCEPT ![r] = "done"]
              /\ file_size' = [file_size EXCEPT ![r] = 0]
              /\ response' = [response EXCEPT ![r] = "413"]
              /\ processing_in_progress' = finally_reset(processing_in_progress)
              /\ UNCHANGED tempVars
         ELSE /\ temp_input' = [temp_input EXCEPT ![r] = "data"]
              /\ file_size' = [file_size EXCEPT ![r] = @ + 1]
              /\ UNCHANGED <<pc, response, processing_in_progress, temp_output>>
    /\ UNCHANGED <<fsShared, pvVars>>

\* main.py:96, 177-179  await video.read raises: except Exception, 500.
UploadError(r) ==
    /\ pc[r] = "upload"
    /\ UNCHANGED dataVars
    /\ pc' = [pc EXCEPT ![r] = "done"]
    /\ response' = [response EXCEPT ![r] = "500"]
    /\ processing_in_progress' = finally_reset(processing_in_progress)
    /\ file_size' = [file_size EXCEPT ![r] = 0]
    /\ UNCHANGED <<tempVars, fsShared, pvVars>>

\* main.py:96, 110-114  the empty chunk ends the loop, process_video is called.
\* file_size is logged here and never read again.
EndOfUpload(r) ==
    /\ pc[r] = "upload"
    /\ UNCHANGED dataVars
    /\ pc' = [pc EXCEPT ![r] = "pv_probe"]
    /\ file_size' = [file_size EXCEPT ![r] = 0]
    /\ UNCHANGED <<processing_in_progress, response, tempVars, fsShared,
                   pvVars>>

\* --------------------------------------------------- src/app/caption.py

\* caption.py:32-41  the file exists and has content.
verify_file_exists(f) == f = "data"

\* Fault variant of check_gpu_availability: the H264 test is missing.
check_gpu_availability_any_intel(o) == o \in {"intel_h264", "intel_no_h264"}

\* caption.py:435-472  True only for return code 0 with 'Intel' and 'H264'
\* in the output; every other outcome of the probe gives False.
check_gpu_availability(o) == o = "intel_h264"

\* Fault variant of run_ffmpeg_command: the output file is not verified.
run_ffmpeg_command_exit_code_only(o, outfile) == o = "ok"

\* caption.py:103-135  exit code 0 and the output file verified; an exception
\* while launching gives False.
run_ffmpeg_command(o, outfile) == o = "ok" /\ verify_file_exists(outfile)

\* caption.py:159-204  transcribe_audio: [] when the audio file is missing or
\* empty, the model path is missing, an exception is caught, or no word
\* was recognised; t is what the recogniser would deliver.
transcribe_audio(audio, t) ==
    IF verify_file_exists(audio) /\ t = "words" THEN "words" ELSE "empty"

\* Fault variant of words_usable: the empty result is not checked.
words_usable_unchecked(w) == TRUE

\* caption.py:507-508  `if not word_timings: raise`.
words_usable(w) == w = "words"

\* The external tool a position of the job is waiting for.
ToolAt(p) ==
    CASE p = "pv_probe" -> "vainfo"
      [] p = "pv_validate" -> "ffprobe"
      [] p = "pv_extract" -> "ffmpeg_audio"
      [] p \in HwMethodSet -> "ffmpeg_hardware"
      [] p = "sw_encode" -> "ffmpeg_software"
      [] OTHER -> "none"

\* Whether the call that starts the tool passes a timeout:
\*   caption.py:439-443  vainfo            subprocess.run(..., timeout=10)
\*   caption.py:56-59    ffprobe           subprocess.run without timeout
\*   caption.py:113-120  ffmpeg (audio)    Popen.communicate() without timeout
\*   caption.py:272,304,334  hardware      subprocess.run(..., timeout=600)
\*   caption.py:560-567  ffmpeg (libx264)  Popen.communicate() without timeout
has_timeout(tool) == tool \in {"vainfo", "ffmpeg_hardware"}

\* caption.py:575-585  the software encode counts as successful when the
\* encoder exited 0 and os.path.exists(output_path).
software_result(o, outfile) == o = "ok" /\ outfile # "absent"

\* Fault variant of software_exit: a failed software encode goes back to
\* the hardware phase.
software_exit_retry_hardware(ok) == IF ok THEN "pv_returned" ELSE "hw_write"

\* caption.py:575-589  every branch of the software block returns from
\* process_video; nothing is tried after it.
software_exit(ok) == "pv_returned"

\* Position of a hardware method in the nesting of caption.py:249-345.
MethodIndex(m) == CHOOSE i \in 1..Len(HwMethods) : HwMethods[i] = m

\* Fault variant of hw_next: each method is retried max_retries times before
\* the next method is tried.
hw_next_per_method(m, o, a) ==
    IF o = "ok"
      THEN [to |-> "return_true", attempt |-> a, sleep |-> 0]
    ELSE IF a < max_retries - 1
      THEN [to |-> m, attempt |-> a + 1, sleep |-> 1]
    ELSE IF MethodIndex(m) < Len(HwMethods)
      THEN [to |-> HwMethods[MethodIndex(m) + 1], attempt |-> 0, sleep |-> 0]
      ELSE [to |-> "return_false", attempt |-> a, sleep |-> 0]

\* Fault variant of hw_next: the loop stops one iteration late.
hw_next_one_more_round(m, o, a) ==
    IF o = "ok"
      THEN [to |-> "return_true", attempt |-> a, sleep |-> 0]
    ELSE IF o \in {"nonzero", "timeout"} /\ MethodIndex(m) < Len(HwMethods)
      THEN [to |-> HwMethods[MethodIndex(m) + 1], attempt |-> a, sleep |-> 0]
    ELSE IF a = max_retries
      THEN [to |-> "return_false", attempt |-> a, sleep |-> 0]
      ELSE [to |-> HwMethods[1], attempt |-> a + 1, sleep |-> 1]

\* Fault variant of hw_next: the inner handlers catch every exception, so
\* any failure moves on to the next method.
hw_next_catch_all(m, o, a) ==
    IF o = "ok"
      THEN [to |-> "return_true", attempt |-> a, sleep |-> 0]
    ELSE IF MethodIndex(m) < Len(HwMethods)
      THEN [to |-> HwMethods[MethodIndex(m) + 1], attempt |-> a, sleep |-> 0]
    ELSE IF a = max_retries - 1
      THEN [to |-> "return_false", attempt |-> a, sleep |-> 0]
      ELSE [to |-> HwMethods[1], attempt |-> a + 1, sleep |-> 1]

\* Fault variant of hw_next: the return after an exit code of 0 is missing
\* for the first two methods, so the next method is invoked all the same.
hw_next_no_early_return(m, o, a) ==
    IF o = "ok" /\ MethodIndex(m) = Len(HwMethods)
      THEN [to |-> "return_true", attempt |-> a, sleep |-> 0]
    ELSE IF o \in {"ok", "nonzero", "timeout"} /\ MethodIndex(m) < Len(HwMethods)
      THEN [to |-> HwMethods[MethodIndex(m) + 1], attempt |-> a, sleep |-> 0]
    ELSE IF a = max_retries - 1
      THEN [to |-> "return_false", attempt |-> a, sleep |-> 0]
      ELSE [to |-> HwMethods[1], attempt |-> a + 1, sleep |-> 1]

\* caption.py:272-379  what try_intel_arc_encoding does after the invocation
\* of method m ended with outcome o in loop iteration a:
\*   return code 0                      -> return True
\*   CalledProcessError/TimeoutExpired  -> the next nested method; after the
\*                                         last method the error is re-raised
\*   any other exception                -> straight to the outer except
\*   outer except: break on the last iteration, else sleep(2) and the next
\*   iteration starts again with the first method.
hw_next(m, o, a) ==
    IF o = "ok"
      THEN [to |-> "return_true", attempt |-> a, sleep |-> 0]
    ELSE IF o \in {"nonzero", "timeout"} /\ MethodIndex(m) < Len(HwMethods)
      THEN [to |-> HwMethods[MethodIndex(m) + 1], attempt |-> a, sleep |-> 0]
    ELSE IF a = max_retries - 1
      THEN [to |-> "return_false", attempt |-> a, sleep |-> 0]
      ELSE [to |-> HwMethods[1], attempt |-> a + 1, sleep |-> 1]

\* Where the output of an encoder invocation is kept on disk.
\*   caption.py:272-276   return code 0 of a hardware method: logged only
\*   caption.py:281, 313  a failure handled by the next nested method:
\*                        logged only
\*   caption.py:345-359   a failure that reaches the outer except (to is the
\*                        retry or the return of False): the stderr of the
\*                        exception, when it has one, is written to
\*                        hardware_error_attempt_N.log
\*   caption.py:567-573   the software encode: ffmpeg_stdout.log and
\*                        ffmpeg_stderr.log once communicate() returned
diagnostic_file(m, o, to) ==
    IF m = Software
      THEN (IF o \in {"ok", "nonzero"} THEN "ffmpeg_stderr.log" ELSE "none")
    ELSE IF to \in {"return_false", HwMethods[1]} /\ o \in {"nonzero", "timeout"}
      THEN "hardware_error_attempt.log"
      ELSE "none"

\* caption.py:520-531  where process_video goes once the filter is built, and
\* where it goes when try_intel_arc_encoding returned False.
encoding_entry(gpu) == IF gpu THEN "hw_write" ELSE "sw_write"

\* Fault variant of after_hardware_failure: the result of
\* try_intel_arc_encoding is returned as the result of process_video.
after_hardware_failure_returns == "pv_returned"

after_hardware_failure == "sw_write"

\* Position at which a stage of process_video is invoked.
StagePc(st) ==
    CASE st = "extract" -> "pv_extract"
      [] st = "transcribe" -> "pv_transcribe"
      [] st = "filter" -> "pv_filter"
      [] OTHER -> "pv_returned"

\* Fault variant of PvFail: a failed stage is invoked again.
PvFail_retries_stage(r, st) ==
    /\ pc' = [pc EXCEPT ![r] = StagePc(st)]
    /\ success' = [success EXCEPT ![r] = FALSE]
    /\ failStage' = [failStage EXCEPT ![r] =
           IF StagePc(st) = "pv_returned" THEN st ELSE @]

\* process_video returns False from stage st (caption.py:601-603, 587-589).
PvFail(r, st) ==
    /\ pc' = [pc EXCEPT ![r] = "pv_returned"]
    /\ success' = [success EXCEPT ![r] = FALSE]
    /\ failStage' = [failStage EXCEPT ![r] = st]

\* caption.py:481-483  os.makedirs(debug_dir) raises: the outer handler
\* returns False before anything else was done.
PvSetupError(r) ==
    /\ pc[r] = "pv_probe"
    /\ UNCHANGED dataVars
    /\ PvFail(r, "setup")
    /\ UNCHANGED <<processing_in_progress, response, file_size, tempVars,
                   fsShared, use_gpu, probe, attempt, encodeLog, lastOutcome, diagnostics,
                   sleeps, filter_write_failed, stageVars>>

\* caption.py:486-493  debug_gpu_status, then the vainfo probe.
PvProbe(r) ==
    /\ pc[r] = "pv_probe"
    /\ UNCHANGED dataVars
    /\ \E o \in ProbeOutcomes :
         /\ probe' = [probe EXCEPT ![r] = o]
         /\ use_gpu' = [use_gpu EXCEPT ![r] = check_gpu_availability(o)]
    /\ pc' = [pc EXCEPT ![r] = "pv_validate"]
    /\ UNCHANGED <<processing_in_progress, response, file_size, tempVars,
                   fsShared, attempt, encodeLog, lastOutcome, diagnostics, sleeps, success,
                   failStage, filter_write_failed, stageVars>>

\* caption.py:495-497  ffprobe validation.
PvValidate(r) ==
    /\ pc[r] = "pv_validate"
    /\ UNCHANGED dataVars
    /\ \E valid \in BOOLEAN :
         IF valid
           THEN /\ pc' = [pc EXCEPT ![r] = "pv_extract"]
                /\ UNCHANGED <<success, failStage>>
           ELSE PvFail(r, "validate")
    /\ UNCHANGED <<processing_in_progress, response, file_size, tempVars,
                   fsShared, use_gpu, probe, attempt, encodeLog, lastOutcome, diagnostics,
                   sleeps, filter_write_failed, stageVars>>

\* caption.py:137-157, 503-504  extract_audio: the input must exist with
\* content, then ffmpeg -y writes debug_audio.wav.
PvExtract(r) ==
    /\ pc[r] = "pv_extract"
    /\ UNCHANGED dataVars
    /\ stagesRun' = [stagesRun EXCEPT ![r] = Append(@, "extract")]
    /\ IF ~verify_file_exists(temp_input[r])
         THEN /\ PvFail(r, "extract")
              /\ audio_tool' = [audio_tool EXCEPT ![r] = "not_run"]
              /\ UNCHANGED audio_file
         ELSE \E o \in SwOutcomes, f \in FileStates :
                /\ audio_tool' = [audio_tool EXCEPT ![r] = o]
                /\ audio_file' = IF o = "exception" THEN audio_file ELSE f
                /\ IF run_ffmpeg_command(o, audio_file')
                     THEN /\ pc' = [pc EXCEPT ![r] = "pv_transcribe"]
                          /\ UNCHANGED <<success, failStage>>
                     ELSE PvFail(r, "extract")
    /\ UNCHANGED <<processing_in_progress, response, file_size, tempVars,
                   hardware_filter, software_filter, use_gpu, probe, attempt,
                   encodeLog, lastOutcome, diagnostics, sleeps, filter_write_failed,
                   word_timings>>

\* caption.py:159-204, 506-508  transcribe_audio returns [] for a missing or
\* empty audio file, a missing model, an exception, or no recognised word.
PvTranscribe(r) ==
    /\ pc[r] = "pv_transcribe"
    /\ UNCHANGED dataVars
    /\ stagesRun' = [stagesRun EXCEPT ![r] = Append(@, "transcribe")]
    /\ \E t \in {"model_missing", "exception", "no_words", "words"} :
         /\ word_timings' = [word_timings EXCEPT ![r] =
                transcribe_audio(audio_file, t)]
         /\ IF words_usable(word_timings'[r])
              THEN /\ pc' = [pc EXCEPT ![r] = "pv_filter"]
                   /\ UNCHANGED <<success, failStage>>
              ELSE PvFail(r, "transcribe")
    /\ UNCHANGED <<processing_in_progress, response, file_size, tempVars,
                   fsShared, use_gpu, probe, attempt, encodeLog, lastOutcome, diagnostics,
                   sleeps, filter_write_failed, audio_tool>>

\* caption.py:510-529  create_drawtext_filter; an exception in it (a word
\* without the expected keys) is caught by the outer handler.
PvFilter(r) ==
    /\ pc[r] = "pv_filter"
    /\ UNCHANGED dataVars
    /\ stagesRun' = [stagesRun EXCEPT ![r] = Append(@, "filter")]
    /\ \E built \in BOOLEAN :
         IF built
           THEN /\ pc' = [pc EXCEPT ![r] = encoding_entry(use_gpu[r])]
                /\ UNCHANGED <<success, failStage>>
           ELSE PvFail(r, "filter")
    /\ UNCHANGED <<processing_in_progress, response, file_size, tempVars,
                   fsShared, use_gpu, probe, attempt, encodeLog, lastOutcome, diagnostics,
                   sleeps, filter_write_failed, audio_tool,
                   word_timings>>

\* Fault variant of HwWriteFilter: the failed write is only logged and the
\* retry loop is entered all the same.
HwWriteFilter_continues_after_failure(r) ==
    /\ pc[r] = "hw_write"
    /\ UNCHANGED dataVars
    /\ \E written \in BOOLEAN :
         IF written
           THEN /\ hardware_filter' = TRUE
                /\ UNCHANGED filter_write_failed
           ELSE /\ UNCHANGED hardware_filter
                /\ filter_write_failed' = [filter_write_failed EXCEPT ![r] =
                       @ \cup {"hardware_filter"}]
    /\ pc' = [pc EXCEPT ![r] = HwMethods[1]]
    /\ attempt' = [attempt EXCEPT ![r] = 0]
    /\ UNCHANGED <<processing_in_progress, response, file_size, tempVars,
                   audio_file, software_filter, use_gpu, probe, encodeLog,
                   lastOutcome, diagnostics, sleeps, success, failStage,
                   stageVars>>

\* caption.py:233-245  hardware_filter.txt is written; when that fails
\* try_intel_arc_encoding returns False at once.
HwWriteFilter(r) ==
    /\ pc[r] = "hw_write"
    /\ UNCHANGED dataVars
    /\ \E written \in BOOLEAN :
         IF written
           THEN /\ hardware_filter' = TRUE
                /\ pc' = [pc EXCEPT ![r] = HwMethods[1]]
                /\ UNCHANGED filter_write_failed
           ELSE /\ UNCHANGED hardware_filter
                /\ pc' = [pc EXCEPT ![r] = after_hardware_failure]
                /\ filter_write_failed' = [filter_write_failed EXCEPT ![r] =
                       @ \cup {"hardware_filter"}]
    /\ attempt' = [attempt EXCEPT ![r] = 0]
    /\ UNCHANGED <<processing_in_progress, response, file_size, tempVars,
                   audio_file, software_filter, use_gpu, probe, encodeLog,
                   lastOutcome, diagnostics, sleeps, success, failStage, stageVars>>

\* caption.py:249-387  one subprocess.run of the hardware method pc[r], and
\* the control flow that follows it.  ffmpeg -y overwrites the output file
\* whenever it was launched.
HwInvoke(r) ==
    /\ pc[r] \in HwMethodSet
    /\ UNCHANGED dataVars
    /\ \E o \in HwOutcomes, out \in {"empty", "data"} :
         LET n == hw_next(pc[r], o, attempt[r]) IN
           /\ encodeLog' = [encodeLog EXCEPT ![r] =
                  Append(@, [m |-> pc[r], a |-> attempt[r], ok |-> (o = "ok")])]
           /\ lastOutcome' = [lastOutcome EXCEPT ![r] = o]
           /\ diagnostics' = [diagnostics EXCEPT ![r] =
                  Append(@, diagnostic_file(pc[r], o, n.to))]
           /\ temp_output' = [temp_output EXCEPT ![r] =
                  IF o = "exception" THEN @ ELSE out]
           /\ attempt' = [attempt EXCEPT ![r] = n.attempt]
           /\ sleeps' = [sleeps EXCEPT ![r] = @ + n.sleep]
           /\ IF n.to = "return_true"
                \* caption.py:276, 524-526: the filter file is left behind
                THEN /\ pc' = [pc EXCEPT ![r] = "pv_returned"]
                     /\ success' = [success EXCEPT ![r] = TRUE]
                     /\ UNCHANGED hardware_filter
                ELSE IF n.to = "return_false"
                \* caption.py:381-387, 527-528
                THEN /\ pc' = [pc EXCEPT ![r] = after_hardware_failure]
                     /\ hardware_filter' = FALSE
                     /\ UNCHANGED success
                ELSE /\ pc' = [pc EXCEPT ![r] = n.to]
                     /\ UNCHANGED <<hardware_filter, success>>
    /\ UNCHANGED <<processing_in_progress, response, file_size, temp_input,
                   audio_file, software_filter, use_gpu, probe, failStage,
                   filter_write_failed, stageVars>>

\* caption.py:533-539, 587-595  software_filter.txt is written; when that
\* fails the except returns False (the unlink in finally fails quietly).
SwWriteFilter(r) ==
    /\ pc[r] = "sw_write"
    /\ UNCHANGED dataVars
    /\ \E written \in BOOLEAN :
         IF written
           THEN /\ software_filter' = TRUE
                /\ pc' = [pc EXCEPT ![r] = "sw_encode"]
                /\ UNCHANGED <<success, failStage, filter_write_failed>>
           ELSE /\ software_filter' = FALSE
                /\ PvFail(r, "software")
                /\ filter_write_failed' = [filter_write_failed EXCEPT ![r] =
                       @ \cup {"software_filter"}]
    /\ UNCHANGED <<processing_in_progress, response, file_size, tempVars,
                   audio_file, hardware_filter, use_gpu, probe, attempt,
                   encodeLog, lastOutcome, diagnostics, sleeps, stageVars>>

\* caption.py:541-595  the libx264 encode, its result, and the finally that
\* removes software_filter.txt.
SwEncode(r) ==
    /\ pc[r] = "sw_encode"
    /\ UNCHANGED dataVars
    /\ \E o \in SwOutcomes, out \in {"empty", "data"} :
         /\ encodeLog' = [encodeLog EXCEPT ![r] =
                Append(@, [m |-> Software, a |-> attempt[r], ok |-> (o = "ok")])]
         /\ lastOutcome' = [lastOutcome EXCEPT ![r] = o]
         /\ diagnostics' = [diagnostics EXCEPT ![r] =
                Append(@, diagnostic_file(Software, o, "pv_returned"))]
         /\ temp_output' = [temp_output EXCEPT ![r] =
                IF o = "exception" THEN @ ELSE out]
         /\ success' = [success EXCEPT ![r] = software_result(o, temp_output'[r])]
         /\ failStage' = [failStage EXCEPT ![r] =
                IF success'[r] THEN "none" ELSE "software"]
    /\ software_filter' = FALSE
    /\ pc' = [pc EXCEPT ![r] = software_exit(success'[r])]
    /\ UNCHANGED <<processing_in_progress, response, file_size, temp_input,
                   audio_file, hardware_filter, use_gpu, probe, attempt,
                   sleeps, filter_write_failed, stageVars>>

\* caption.py:56-59, 113-120, 560-567  the tool the job waits for never
\* exits and the call that started it has no timeout: the handler stays
\* blocked in that call.  (A tool started with a timeout ends with the
\* outcome "timeout" in PvProbe and HwInvoke.)
ToolNeverExits(r) ==
    /\ ToolAt(pc[r]) # "none"
    /\ UNCHANGED dataVars
    /\ ~has_timeout(ToolAt(pc[r]))
    /\ pc[r] = "pv_extract" => verify_file_exists(temp_input[r])
    /\ pc' = [pc EXCEPT ![r] = "blocked"]
    /\ UNCHANGED <<processing_in_progress, response, file_size, tempVars,
                   fsShared, pvVars>>

\* ------------------------------------------- src/main.py, after the call

\* The locals of the finished process_video activation are gone.
PvLocalsCleared(r) ==
    /\ use_gpu' = [use_gpu EXCEPT ![r] = FALSE]
    /\ probe' = [probe EXCEPT ![r] = "none"]
    /\ attempt' = [attempt EXCEPT ![r] = 0]
    /\ encodeLog' = [encodeLog EXCEPT ![r] = <<>>]
    /\ lastOutcome' = [lastOutcome EXCEPT ![r] = "none"]
    /\ diagnostics' = [diagnostics EXCEPT ![r] = <<>>]
    /\ sleeps' = [sleeps EXCEPT ![r] = 0]
    /\ success' = [success EXCEPT ![r] = FALSE]
    /\ failStage' = [failStage EXCEPT ![r] = "none"]
    /\ filter_write_failed' = [filter_write_failed EXCEPT ![r] = {}]
    /\ stagesRun' = [stagesRun EXCEPT ![r] = <<>>]
    /\ audio_tool' = [audio_tool EXCEPT ![r] = "none"]
    /\ word_timings' = [word_timings EXCEPT ![r] = "none"]

\* main.py:123-183  failure: both temp files are unlinked and 500 is raised;
\* success: the FileResponse is returned with cleanup_files as background
\* task.  Either way the finally resets the flag.
HandleResult(r) ==
    /\ pc[r] = "pv_returned"
    /\ UNCHANGED dataVars
    /\ IF success[r]
         THEN /\ pc' = [pc EXCEPT ![r] = "responding"]
              /\ response' = [response EXCEPT ![r] = "200"]
              /\ UNCHANGED tempVars
         ELSE /\ pc' = [pc EXCEPT ![r] = "done"]
              /\ response' = [response EXCEPT ![r] = "500"]
              /\ temp_input' = [temp_input EXCEPT ![r] = "absent"]
              /\ temp_output' = [temp_output EXCEPT ![r] = "absent"]
    /\ processing_in_progress' = finally_reset(processing_in_progress)
    /\ PvLocalsCleared(r)
    /\ UNCHANGED <<file_size, fsShared>>

\* main.py:130-140, 171  the background task unlinks both temp files after
\* the response body was sent.
CleanupFiles(r) ==
    /\ pc[r] = "responding"
    /\ UNCHANGED dataVars
    /\ temp_input' = [temp_input EXCEPT ![r] = "absent"]
    /\ temp_output' = [temp_output EXCEPT ![r] = "absent"]
    /\ pc' = [pc EXCEPT ![r] = "done"]
    /\ UNCHANGED <<processing_in_progress, response, file_size, fsShared,
                   pvVars>>

\* The client has its answer; the slot serves the next request, whose temp
\* files are new ones.
NextRequest(r) ==
    /\ pc[r] \in {"done", "rejected"}
    /\ UNCHANGED dataVars
    /\ pc' = [pc EXCEPT ![r] = "idle"]
    /\ response' = [response EXCEPT ![r] = "none"]
    /\ temp_input' = [temp_input EXCEPT ![r] = "absent"]
    /\ temp_output' = [temp_output EXCEPT ![r] = "absent"]
    /\ UNCHANGED <<processing_in_progress, file_size, fsShared, pvVars>>

Next ==
    \E r \in Requests :
        \/ Arrive(r)
        \/ ValidateExtension(r)
        \/ CreateTempFiles(r)
        \/ ReadChunk(r)
        \/ UploadError(r)
        \/ EndOfUpload(r)
        \/ PvSetupError(r)
        \/ PvProbe(r)
        \/ PvValidate(r)
        \/ PvExtract(r)
        \/ PvTranscribe(r)
        \/ PvFilter(r)
        \/ HwWriteFilter(r)
        \/ HwInvoke(r)
        \/ SwWriteFilter(r)
        \/ SwEncode(r)
        \/ ToolNeverExits(r)
        \/ HandleResult(r)
        \/ CleanupFiles(r)
        \/ NextRequest(r)

Spec == Init /\ [][Next]_vars

\* ------------------------------------- src/app/caption.py, transcribe_audio

\* What json.loads(rec.Result()) or json.loads(rec.FinalResult()) can hold:
\* no 'result' key (nothing recognised), or a list of words under 'result'.
\* The lists include a repeated word and words out of alphabetic order.
RecResults == {"no_result_key", <<"w1">>, <<"w2", "w1">>, <<"w1", "w1">>}

\* Fault variant of extend_words: a word already in the list is left out.
extend_words_dedup(ws, part) ==
    LET New(w) == \A i \in 1..Len(ws) : ws[i] # w IN
    IF part = "no_result_key" THEN ws ELSE ws \o SelectSeq(part, New)

\* caption.py:186-187, 190-191  if 'result' in r: words.extend(r['result']).
extend_words(ws, part) ==
    IF part = "no_result_key" THEN ws ELSE ws \o part

\* caption.py:170-176  the wave file is open, the recogniser is built,
\* words = [].
TranscriberInit ==
    /\ tr_pc = "loop"
    /\ words = <<>>
    /\ rec_results = <<>>

\* caption.py:179-187  one chunk with data: AcceptWaveform says whether a
\* result is ready; only then rec.Result() is read and appended.
TrChunk ==
    /\ tr_pc = "loop"
    /\ Len(rec_results) < MaxChunks
    /\ \E accepted \in BOOLEAN :
         IF accepted
           THEN \E part \in RecResults :
                  /\ rec_results' = Append(rec_results,
                         [accepted |-> TRUE, result |-> part])
                  /\ words' = extend_words(words, part)
           ELSE /\ rec_results' = Append(rec_results,
                       [accepted |-> FALSE, result |-> "no_result_key"])
                /\ words' = words
    /\ UNCHANGED tr_pc
    /\ UNCHANGED <<handlerVars, filterVars, appVars>>

\* caption.py:180-182  readframes returns no data: the loop ends.
TrEndOfAudio ==
    /\ tr_pc = "loop"
    /\ tr_pc' = "final"
    /\ UNCHANGED <<words, rec_results>>
    /\ UNCHANGED <<handlerVars, filterVars, appVars>>

\* caption.py:189-202  the final flush is appended and words is returned.
TrFinal ==
    /\ tr_pc = "final"
    /\ \E part \in RecResults :
         /\ rec_results' = Append(rec_results,
                [accepted |-> TRUE, result |-> part])
         /\ words' = extend_words(words, part)
    /\ tr_pc' = "returned"
    /\ UNCHANGED <<handlerVars, filterVars, appVars>>

\* caption.py:203-204  an exception anywhere in the try block: [] is
\* returned.
TrException ==
    /\ tr_pc \in {"loop", "final"}
    /\ words' = <<>>
    /\ tr_pc' = "failed"
    /\ UNCHANGED rec_results
    /\ UNCHANGED <<handlerVars, filterVars, appVars>>

TranscriberNext ==
    \/ TrChunk
    \/ TrEndOfAudio
    \/ TrFinal
    \/ TrException

\* transcribe_audio on every sequence of recogniser results.
TranscriberStart == HandlerInit /\ TranscriberInit /\ FilterIdle /\ AppInit

TranscriberSpec == TranscriberStart /\ [][TranscriberNext]_vars

\* ------------------------------- src/app/caption.py, create_drawtext_filter

\* Words as the recogniser delivers them ('word', 'start', 'end'; times in
\* hundredths of a second): an ordinary word, a word with an apostrophe
\* that is shorter than two fades, a word of zero duration, a word that ends
\* before it starts and starts before the others end, a word shorter than
\* one fade.
WordPool == {
    [word |-> <<"o", "k">>, start |-> 100, end |-> 150],
    [word |-> <<"i", "t", "'", "s">>, start |-> 150, end |-> 158],
    [word |-> <<"5", "0", "%">>, start |-> 160, end |-> 160],
    [word |-> <<"a", ":", "b">>, start |-> 140, end |-> 120],
    [word |-> <<"c", "\\">>, start |-> 200, end |-> 203] }

WordLists == UNION {[1..n -> WordPool] : n \in 1..MaxWords}

\* str.upper() on the characters of WordPool.
Upper(c) ==
    CASE c = "a" -> "A" [] c = "b" -> "B" [] c = "c" -> "C"
      [] c = "i" -> "I" [] c = "k" -> "K" [] c = "o" -> "O"
      [] c = "s" -> "S" [] c = "t" -> "T"
      [] OTHER -> c

\* caption.py:77  the replacement of .replace("'", "'\\\\\\''"): quote,
\* three backslashes, quote, quote.
apostrophe_replacement == <<"'", "\\", "\\", "\\", "'", "'">>

\* caption.py:77  word['word'].upper().replace("'", ...): only the
\* apostrophe is replaced, every other character is copied.
RECURSIVE escape_text(_)
escape_text(w) ==
    IF w = <<>> THEN <<>>
    ELSE (IF Upper(Head(w)) = "'" THEN apostrophe_replacement
                                  ELSE <<Upper(Head(w))>>)
         \o escape_text(Tail(w))

\* caption.py:79-97  one drawtext directive: the text, the alpha expression
\*   if(lt(t,start+0.05), (t-start)/0.05, if(lt(end-t,0.05), (end-t)/0.05, 1))
\* kept as the end of the fade-in and the start of the fade-out, and the
\* enable window between(t,start,end).
drawtext(w) ==
    [text |-> escape_text(w.word),
     alpha_in_end |-> w.start + FadeWindow,
     alpha_out_start |-> w.end - FadeWindow,
     enable |-> <<w.start, w.end>>]

\* Fault variant of create_drawtext_filter: words that do not last are
\* skipped.
create_drawtext_filter_skips(ws) ==
    LET Lasts(w) == w.end > w.start IN
    [i \in 1..Len(SelectSeq(ws, Lasts)) |-> drawtext(SelectSeq(ws, Lasts)[i])]

\* caption.py:70-101  one directive per word, in the order of the list,
\* joined by ','.
create_drawtext_filter(ws) == [i \in 1..Len(ws) |-> drawtext(ws[i])]

\* Fault variant of filter_file_content: the fades are taken out of the
\* filter written for the hardware methods.
filter_file_content_no_fade_on_hardware(file, fc) ==
    IF file = "hardware_filter.txt"
      THEN [i \in 1..Len(fc) |->
              [fc[i] EXCEPT !.alpha_in_end = fc[i].enable[1],
                            !.alpha_out_start = fc[i].enable[2]]]
      ELSE fc

\* caption.py:238-239, 538-539  f.write(filter_complex).
filter_file_content(file, fc) == fc

\* Fault variant of plan_argument: the software encoder gets the filter on
\* its command line.
plan_argument_inline_for_software(m) ==
    IF m \in HwMethodSet
      THEN [option |-> "-filter_complex_script", arg |-> "hardware_filter.txt"]
      ELSE [option |-> "-filter_complex", arg |-> "inline"]

\* caption.py:262, 294, 325, 545  how the command line of method m names the
\* filter: always the path of a filter file.
plan_argument(m) ==
    [option |-> "-filter_complex_script",
     arg |-> IF m \in HwMethodSet THEN "hardware_filter.txt"
                                  ELSE "software_filter.txt"]

\* The command line of method m and the filter text the encoder gets to
\* read through it.
Command(m) ==
    LET p == plan_argument(m) IN
    [m |-> m, option |-> p.option, arg |-> p.arg,
     text |-> IF p.option = "-filter_complex_script"
                THEN (IF p.arg = "hardware_filter.txt"
                        THEN hardware_filter_text ELSE software_filter_text)
                ELSE filter_complex]

\* The word list transcribe_audio returned; it is not empty
\* (caption.py:507-508).
FilterInit ==
    /\ fl_pc = "start"
    /\ timed_words \in WordLists
    /\ filter_complex = <<>>
    /\ hardware_filter_text = "none"
    /\ software_filter_text = "none"
    /\ commands = <<>>

\* caption.py:511-516
FlBuild ==
    /\ fl_pc = "start"
    /\ filter_complex' = create_drawtext_filter(timed_words)
    /\ fl_pc' = "built"
    /\ UNCHANGED <<timed_words, hardware_filter_text, software_filter_text,
                   commands>>
    /\ UNCHANGED <<handlerVars, transcriberVars, appVars>>

\* caption.py:521-523, 237-239  use_gpu: hardware_filter.txt is written.
FlWriteHardware ==
    /\ fl_pc = "built"
    /\ hardware_filter_text' =
           filter_file_content("hardware_filter.txt", filter_complex)
    /\ fl_pc' = "hardware"
    /\ UNCHANGED <<timed_words, filter_complex, software_filter_text,
                   commands>>
    /\ UNCHANGED <<handlerVars, transcriberVars, appVars>>

\* caption.py:253-334  the command line of the next hardware method.
FlInvokeHardware ==
    /\ fl_pc = "hardware"
    /\ Len(commands) < Len(HwMethods)
    /\ commands' = Append(commands, Command(HwMethods[Len(commands) + 1]))
    /\ UNCHANGED <<fl_pc, timed_words, filter_complex, hardware_filter_text,
                   software_filter_text>>
    /\ UNCHANGED <<handlerVars, transcriberVars, appVars>>

\* caption.py:381-385, 533-539  no GPU, or the hardware methods failed and
\* hardware_filter.txt was removed: software_filter.txt is written.
FlWriteSoftware ==
    /\ fl_pc \in {"built", "hardware"}
    /\ software_filter_text' =
           filter_file_content("software_filter.txt", filter_complex)
    /\ hardware_filter_text' = "none"
    /\ fl_pc' = "software"
    /\ UNCHANGED <<timed_words, filter_complex, commands>>
    /\ UNCHANGED <<handlerVars, transcriberVars, appVars>>

\* caption.py:541-567  the command line of the software encoder.
FlInvokeSoftware ==
    /\ fl_pc = "software"
    /\ commands' = Append(commands, Command(Software))
    /\ fl_pc' = "end"
    /\ UNCHANGED <<timed_words, filter_complex, hardware_filter_text,
                   software_filter_text>>
    /\ UNCHANGED <<handlerVars, transcriberVars, appVars>>

FilterNext ==
    \/ FlBuild
    \/ FlWriteHardware
    \/ FlInvokeHardware
    \/ FlWriteSoftware
    \/ FlInvokeSoftware

\* create_drawtext_filter and the command lines, for every word list.
FilterStart == HandlerInit /\ TranscriberIdle /\ FilterInit /\ AppInit

FilterSpec == FilterStart /\ [][FilterNext]_vars

\* ------------------------------------------------ src/app.py, caption_video

\* What sending a FileResponse gives the client: the body when the file is
\* there, an error when the path no longer exists.
file_response_send(f) == IF f = "absent" THEN "missing_file" ELSE "body"

\* app.py:16-21  POST /caption/video: the temp input file is created.
AppArrive(r) ==
    /\ app_pc[r] = "idle"
    /\ app_pc' = [app_pc EXCEPT ![r] = "read"]
    /\ app_input' = [app_input EXCEPT ![r] = "empty"]
    /\ UNCHANGED <<app_output, app_returning, app_result>>
    /\ UNCHANGED <<handlerVars, transcriberVars, filterVars>>

\* app.py:23-28  the upload is written to the input file and the temp output
\* file is created.
AppReadUpload(r) ==
    /\ app_pc[r] = "read"
    /\ \E content \in {"empty", "data"} :
         app_input' = [app_input EXCEPT ![r] = content]
    /\ app_output' = [app_output EXCEPT ![r] = "empty"]
    /\ app_pc' = [app_pc EXCEPT ![r] = "process"]
    /\ UNCHANGED <<app_returning, app_result>>
    /\ UNCHANGED <<handlerVars, transcriberVars, filterVars>>

\* app.py:23  await video.read() raises outside the try block: the input
\* file stays and the client gets an error.
AppReadError(r) ==
    /\ app_pc[r] = "read"
    /\ app_pc' = [app_pc EXCEPT ![r] = "done"]
    /\ app_result' = [app_result EXCEPT ![r] = "error"]
    /\ UNCHANGED <<app_input, app_output, app_returning>>
    /\ UNCHANGED <<handlerVars, transcriberVars, filterVars>>

\* app.py:31-38  process_video of caption_processor.py writes the output or
\* raises; on return the FileResponse object is created and the return
\* statement is reached.
AppProcess(r) ==
    /\ app_pc[r] = "process"
    /\ \E raised \in BOOLEAN, out \in {"empty", "data"} :
         IF raised
           THEN /\ app_returning' = [app_returning EXCEPT ![r] = "exception"]
                /\ app_output' = [app_output EXCEPT ![r] = out]
           ELSE /\ app_returning' = [app_returning EXCEPT ![r] = "FileResponse"]
                /\ app_output' = [app_output EXCEPT ![r] = "data"]
    /\ app_pc' = [app_pc EXCEPT ![r] = "finally"]
    /\ UNCHANGED <<app_input, app_result>>
    /\ UNCHANGED <<handlerVars, transcriberVars, filterVars>>

\* app.py:39-43  the finally runs before caption_video hands its return
\* value to the framework: both temp files are unlinked.
AppFinally(r) ==
    /\ app_pc[r] = "finally"
    /\ app_input' = [app_input EXCEPT ![r] = "absent"]
    /\ app_output' = [app_output EXCEPT ![r] = "absent"]
    /\ IF app_returning[r] = "FileResponse"
         THEN /\ app_pc' = [app_pc EXCEPT ![r] = "send"]
              /\ UNCHANGED app_result
         ELSE /\ app_pc' = [app_pc EXCEPT ![r] = "done"]
              /\ app_result' = [app_result EXCEPT ![r] = "error"]
    /\ UNCHANGED app_returning
    /\ UNCHANGED <<handlerVars, transcriberVars, filterVars>>

\* The framework sends the FileResponse that caption_video returned.
AppSend(r) ==
    /\ app_pc[r] = "send"
    /\ app_result' = [app_result EXCEPT ![r] = file_response_send(app_output[r])]
    /\ app_pc' = [app_pc EXCEPT ![r] = "done"]
    /\ UNCHANGED <<app_input, app_output, app_returning>>
    /\ UNCHANGED <<handlerVars, transcriberVars, filterVars>>

\* The client has its answer; the slot serves the next request, whose temp
\* files are new ones.
AppNextRequest(r) ==
    /\ app_pc[r] = "done"
    /\ app_pc' = [app_pc EXCEPT ![r] = "idle"]
    /\ app_input' = [app_input EXCEPT ![r] = "absent"]
    /\ app_output' = [app_output EXCEPT ![r] = "absent"]
    /\ app_returning' = [app_returning EXCEPT ![r] = "none"]
    /\ app_result' = [app_result EXCEPT ![r] = "none"]
    /\ UNCHANGED <<handlerVars, transcriberVars, filterVars>>

AppNext ==
    \E r \in Requests :
        \/ AppArrive(r)
        \/ AppReadUpload(r)
        \/ AppReadError(r)
        \/ AppProcess(r)
        \/ AppFinally(r)
        \/ AppSend(r)
        \/ AppNextRequest(r)

AppStart == HandlerInit /\ TranscriberIdle /\ FilterIdle /\ AppInit

\* The /caption/video endpoint of src/app.py.
AppSpec == AppStart /\ [][AppNext]_vars

\* ------------------------------------------------------------ properties

\* Positions inside process_video, and positions between admission and the
\* end of the handler.
PvPcs == {"pv_probe", "pv_validate", "pv_extract", "pv_transcribe",
          "pv_filter", "hw_write", "sw_write", "sw_encode", "blocked"}
         \cup HwMethodSet
HandlerPcs == {"validate", "create_temp", "upload", "pv_returned"} \cup PvPcs

IsHw(e) == e.m \in HwMethodSet
IsSw(e) == e.m = Software
HwLog(r) == SelectSeq(encodeLog[r], IsHw)
SwLog(r) == SelectSeq(encodeLog[r], IsSw)
Idx(e) == MethodIndex(e.m)
Count(r, m) == Cardinality({i \in 1..Len(encodeLog[r]) : encodeLog[r][i].m = m})

\* Stages of process_video that come before the encoding stage.
PreEncodeStages == {"setup", "validate", "extract", "transcribe", "filter"}

\* C1: at most one request is between admission and the end of its handler
\* (so process_video never runs for two jobs at once), and a request that
\* arrives while another one is there is answered 429 while a request that
\* arrives when none is there is admitted.
C1_SingleFlight ==
    /\ [](Cardinality({r \in Requests : pc[r] \in HandlerPcs}) <= 1)
    /\ [][\A r \in Requests :
            (pc[r] = "idle" /\ pc'[r] # "idle") =>
               IF \E q \in Requests : pc[q] \in HandlerPcs
                 THEN pc'[r] = "rejected" /\ response'[r] = "429"
                 ELSE pc'[r] \in HandlerPcs]_vars

\* C1 witness: one job is inside process_video while a concurrent request
\* has been rejected.
C1_Witness ==
    \E r, q \in Requests :
        /\ pc[r] \in HwMethodSet
        /\ pc[q] = "rejected" /\ response[q] = "429"

\* C2: a request that arrives while the flag is true is rejected in that
\* very step and changes nothing: the flag stays true, no temp file appears,
\* nothing of any process_video activation moves; leaving the rejected state
\* does not touch the flag either.
C2_RejectionChangesNothing ==
    [][\A r \in Requests :
         /\ (pc[r] = "idle" /\ processing_in_progress /\ pc'[r] # "idle") =>
               /\ pc'[r] = "rejected"
               /\ processing_in_progress'
               /\ temp_input' = temp_input /\ temp_output' = temp_output
               /\ fsShared' = fsShared /\ pvVars' = pvVars
               /\ \A q \in Requests \ {r} : pc'[q] = pc[q]
         /\ (pc[r] = "rejected" /\ pc'[r] # "rejected") =>
               /\ processing_in_progress' = processing_in_progress
               /\ pc'[r] \notin HandlerPcs
               /\ temp_input'[r] = "absent" /\ temp_output'[r] = "absent"]_vars

\* C2 witness: a request was rejected while the running job is in its
\* software encode, and the flag is still set.
C2_Witness ==
    \E r, q \in Requests :
        /\ pc[r] = "rejected"
        /\ pc[q] = "sw_encode"
        /\ processing_in_progress
        /\ temp_input[r] = "absent" /\ temp_output[r] = "absent"

\* C3: whichever way an admitted handler ends (400, 413, 500 after a failed
\* process_video, 500 after an unexpected exception, 200), the flag is false
\* once it has ended, unless a later request has been admitted since: the
\* flag is never true without an admitted handler holding it, so no job
\* leaves the service locked.
C3_FlagReleasedOnEveryExit ==
    /\ processing_in_progress => \E r \in Requests : pc[r] \in HandlerPcs
    /\ \A r \in Requests :
          (pc[r] \in {"done", "responding"} /\ processing_in_progress) =>
              \E q \in Requests \ {r} : pc[q] \in HandlerPcs

\* C3 witness: a job ended with an error and a later request has been
\* admitted.
C3_Witness ==
    \E r, q \in Requests :
        /\ pc[r] = "done" /\ response[r] \in {"413", "500"}
        /\ pc[q] = "pv_probe"

\* The hardware phase was entered with a usable GPU, at least one hardware
\* method was invoked, every invocation failed, and process_video returned.
AllHardwareFailed(r) ==
    /\ pc[r] = "pv_returned"
    /\ use_gpu[r]
    /\ Len(HwLog(r)) >= 1
    /\ \A i \in 1..Len(encodeLog[r]) : IsHw(encodeLog[r][i]) => ~encodeLog[r][i].ok

\* C4 as claimed: after a usable probe and only failing hardware invocations
\* the software encode runs exactly once, and process_video returns success
\* if it succeeds.
C4_Original ==
    \A r \in Requests :
        AllHardwareFailed(r) =>
            /\ Len(SwLog(r)) = 1
            /\ (SwLog(r)[1].ok => success[r])

\* C4 amended: after a usable probe and only failing hardware invocations
\* process_video enters the software path; unless software_filter.txt cannot
\* be written (then it returns failure without invoking the encoder) the
\* software encode runs exactly once, after every hardware invocation, and
\* process_video returns success if it succeeds.
C4_SoftwareFallback ==
    \A r \in Requests :
        AllHardwareFailed(r) =>
            IF "software_filter" \in filter_write_failed[r]
              THEN Len(SwLog(r)) = 0 /\ ~success[r]
              ELSE /\ Len(SwLog(r)) = 1
                   /\ IsSw(encodeLog[r][Len(encodeLog[r])])
                   /\ (SwLog(r)[1].ok => success[r])

\* C4 witness: every method failed in every round, the software encode ran
\* and process_video returned success.
C4_Witness ==
    \E r \in Requests :
        /\ AllHardwareFailed(r)
        /\ Len(HwLog(r)) = max_retries * Len(HwMethods)
        /\ Len(SwLog(r)) = 1
        /\ success[r]

\* C5 as claimed: the hardware invocations of a job have the shape
\* M1..M1, M2..M2, M3..M3: no method is invoked after a later method was.
C5_Original ==
    \A r \in Requests :
        \A i, j \in 1..Len(HwLog(r)) :
            i < j => Idx(HwLog(r)[i]) <= Idx(HwLog(r)[j])

\* C5 amended: the hardware invocations come in rounds.  A round starts with
\* the first method and goes down the priority list, each method at most
\* once; a failed round is retried as a whole, up to max_retries rounds with
\* one backoff sleep before each retry, so the first method is invoked again
\* after later methods were.
C5_RoundsOfMethods ==
    \A r \in Requests :
        LET h == HwLog(r) IN
          /\ \A i \in 1..Len(h) :
                /\ h[i].a \in 0..(max_retries - 1)
                /\ (i = 1 \/ h[i].a # h[i - 1].a) <=> (Idx(h[i]) = 1)
                /\ i = 1 => h[i].a = 0
          /\ \A i, j \in 1..Len(h) :
                i < j => \/ h[i].a < h[j].a
                         \/ h[i].a = h[j].a /\ Idx(h[i]) < Idx(h[j])
          /\ \A i \in 1..(Len(h) - 1) :
                h[i + 1].a # h[i].a => h[i + 1].a = h[i].a + 1 /\ ~h[i].ok
          /\ sleeps[r] = attempt[r]
          /\ (pc[r] \in HwMethodSet /\ h # <<>>) =>
                attempt[r] = h[Len(h)].a + (IF pc[r] = HwMethods[1] THEN 1 ELSE 0)

\* C5 witness: the first round went through all three methods and the second
\* round has started again with the first method after one backoff.
C5_Witness ==
    \E r \in Requests :
        /\ Len(HwLog(r)) = 4
        /\ HwLog(r)[3].m = HwMethods[3]
        /\ HwLog(r)[4].m = HwMethods[1]
        /\ sleeps[r] = 1

\* C6: per job every hardware method is invoked at most max_retries times,
\* hence at most 9 hardware invocations, at most max_retries - 1 backoff
\* sleeps, and the software encoder at most once.
C6_BoundedAttempts ==
    \A r \in Requests :
        /\ \A m \in HwMethodSet : Count(r, m) <= max_retries
        /\ Len(HwLog(r)) <= max_retries * Len(HwMethods)
        /\ sleeps[r] <= max_retries - 1
        /\ Count(r, Software) <= 1

\* C6 witness: all nine hardware invocations, both sleeps and the software
\* encode have happened.
C6_Witness ==
    \E r \in Requests :
        /\ \A m \in HwMethodSet : Count(r, m) = max_retries
        /\ sleeps[r] = max_retries - 1
        /\ Count(r, Software) = 1

\* C7 as claimed: a lower-priority method is invoked only after the next
\* higher one failed, and every kind of failure of a method that has a
\* lower-priority successor is followed by the invocation of that successor.
C7_Original ==
    \A r \in Requests :
        \A i \in 1..(Len(encodeLog[r]) - 1) :
            LET e == encodeLog[r][i]
                n == encodeLog[r][i + 1] IN
              /\ (IsHw(n) /\ Idx(n) > 1) =>
                    IsHw(e) /\ Idx(e) = Idx(n) - 1 /\ ~e.ok
              /\ (IsHw(e) /\ ~e.ok /\ Idx(e) < Len(HwMethods)) =>
                    IsHw(n) /\ Idx(n) = Idx(e) + 1

\* C7 amended: within a round the methods are tried in the fixed priority
\* order; a lower-priority method is invoked only right after the next
\* higher one failed in the same round with a nonzero exit or a timeout.  Any
\* other exception raised while launching a method ends the round: no lower
\* method is tried in it.
C7_PriorityOrder ==
    \A r \in Requests :
        /\ \A i \in 1..(Len(encodeLog[r]) - 1) :
              LET e == encodeLog[r][i]
                  n == encodeLog[r][i + 1] IN
                (IsHw(n) /\ Idx(n) > 1) =>
                    IsHw(e) /\ Idx(e) = Idx(n) - 1 /\ ~e.ok /\ e.a = n.a
        /\ (pc[r] \in HwMethodSet /\ MethodIndex(pc[r]) > 1) =>
              /\ encodeLog[r] # <<>>
              /\ LET e == encodeLog[r][Len(encodeLog[r])] IN
                   /\ IsHw(e) /\ Idx(e) = MethodIndex(pc[r]) - 1
                   /\ ~e.ok /\ e.a = attempt[r]
              /\ lastOutcome[r] \in {"nonzero", "timeout"}
        /\ (lastOutcome[r] = "exception" /\ pc[r] \in HwMethodSet) =>
              pc[r] = HwMethods[1]

\* C7 witness: the second method raised another exception in the first
\* round; the third method was skipped and the next round is about to start
\* with the first method.
C7_Witness ==
    \E r \in Requests :
        /\ pc[r] = HwMethods[1]
        /\ lastOutcome[r] = "exception"
        /\ Len(encodeLog[r]) = 2
        /\ encodeLog[r][2].m = HwMethods[2]
        /\ attempt[r] = 1

\* C8: once a job is in the software path or process_video has returned, no
\* hardware method is invoked for it any more.
C8_NoHardwareAfterSoftware ==
    [][\A r \in Requests :
         (pc[r] \in {"sw_write", "sw_encode", "pv_returned"}) =>
            /\ pc'[r] \notin (HwMethodSet \cup {"hw_write"})
            /\ Len(SelectSeq(encodeLog'[r], IsHw)) <= Len(HwLog(r))
            /\ \A i, j \in 1..Len(encodeLog'[r]) :
                  (i < j /\ IsSw(encodeLog'[r][i])) => ~IsHw(encodeLog'[r][j])]_vars

\* C8 witness: the software encode failed after failed hardware rounds and
\* process_video has returned failure.
C8_Witness ==
    \E r \in Requests :
        /\ pc[r] = "pv_returned" /\ ~success[r]
        /\ Len(HwLog(r)) >= 1
        /\ Len(SwLog(r)) = 1

\* C9: when the probe does not report a usable GPU, whatever the reason, no
\* hardware method is invoked for the job and the first encoder invocation
\* is the software encode.
C9_ProbeFailureSkipsHardware ==
    \A r \in Requests :
        (probe[r] \notin {"none", "intel_h264"}) =>
            /\ ~use_gpu[r]
            /\ pc[r] \notin (HwMethodSet \cup {"hw_write"})
            /\ HwLog(r) = <<>>
            /\ (encodeLog[r] # <<>> => IsSw(encodeLog[r][1]))

\* C9 witness: the probe found an Intel GPU without H264 and the software
\* encode was the only invocation.
C9_Witness ==
    \E r \in Requests :
        /\ probe[r] = "intel_no_h264"
        /\ Len(encodeLog[r]) = 1
        /\ IsSw(encodeLog[r][1])

\* C10: process_video returns failure from the encoding stage only out of
\* the software path, after that path was tried and failed; a failure of a
\* hardware invocation never is the failure of process_video.
C10_EncodeFailureOnlyAfterSoftware ==
    \A r \in Requests :
        (pc[r] = "pv_returned" /\ ~success[r] /\ failStage[r] \notin PreEncodeStages) =>
            /\ failStage[r] = "software"
            /\ \/ "software_filter" \in filter_write_failed[r]
               \/ /\ encodeLog[r] # <<>>
                  /\ IsSw(encodeLog[r][Len(encodeLog[r])])
                  /\ lastOutcome[r] \in SwOutcomes
                  /\ ~software_result(lastOutcome[r], temp_output[r])

\* C10 witness: hardware invocations failed with an exception in every
\* round, the software encode exited nonzero, process_video returned failure.
C10_Witness ==
    \E r \in Requests :
        /\ pc[r] = "pv_returned" /\ ~success[r]
        /\ failStage[r] = "software"
        /\ Len(HwLog(r)) = max_retries
        /\ lastOutcome[r] = "nonzero"
        /\ IsSw(encodeLog[r][Len(encodeLog[r])])

\* C11: the first encode invocation that succeeds is the last invocation of
\* the job (no hardware retry, no later hardware method, no software encode
\* follows it), and process_video returns success.
C11_FirstSuccessEndsEncoding ==
    \A r \in Requests :
        \A i \in 1..Len(encodeLog[r]) :
            encodeLog[r][i].ok =>
                /\ i = Len(encodeLog[r])
                /\ pc[r] = "pv_returned"
                /\ success[r]

\* C11 witness: the first round failed, the second hardware method of the
\* second round exited 0 and process_video returned success.
C11_Witness ==
    \E r \in Requests :
        /\ pc[r] = "pv_returned" /\ success[r]
        /\ Len(encodeLog[r]) >= 3
        /\ encodeLog[r][Len(encodeLog[r])] =
               [m |-> HwMethods[2], a |-> 1, ok |-> TRUE]

\* C12: process_video returns success only if the encoder of the last
\* invocation exited 0 and the output file exists with nonzero size.
C12_SuccessNeedsNonEmptyOutput ==
    \A r \in Requests :
        (pc[r] = "pv_returned" /\ success[r]) =>
            /\ encodeLog[r] # <<>>
            /\ encodeLog[r][Len(encodeLog[r])].ok
            /\ verify_file_exists(temp_output[r])

\* C13: when the handler of a job has raised its error response, no file
\* is left at the output path of the job.
C13_NoOutputFileAfterFailure ==
    \A r \in Requests :
        (pc[r] = "done" /\ response[r] \in {"413", "500"}) =>
            temp_output[r] = "absent"

\* C14: when process_video has returned, debug_audio.wav, hardware_filter.txt
\* and software_filter.txt do not exist.
C14_NoIntermediateFilesRemain ==
    \A r \in Requests :
        pc[r] = "pv_returned" =>
            /\ audio_file = "absent"
            /\ ~hardware_filter
            /\ ~software_filter

\* C15: on every failing exit of create_caption taken after the temp files
\* were created (413, 500) both temp files have been removed.
C15_TempFilesRemovedOnFailure ==
    \A r \in Requests :
        (pc[r] = "done" /\ response[r] \in {"413", "500"}) =>
            /\ temp_input[r] = "absent"
            /\ temp_output[r] = "absent"

\* C16: once try_intel_arc_encoding has returned (with True or with False)
\* hardware_filter.txt does not exist, and once the software block was left
\* software_filter.txt does not exist.
C16_FilterFileDeletedAfterEncode ==
    \A r \in Requests :
        /\ (HwLog(r) # <<>> /\ pc[r] \in {"sw_write", "sw_encode", "pv_returned"})
               => ~hardware_filter
        /\ pc[r] = "pv_returned" => ~software_filter

\* C17: every external tool is started with a timeout, so no job ever stays
\* blocked in the call of a tool that does not exit.
C17_EveryToolHasTimeout ==
    \A r \in Requests : pc[r] # "blocked"

\* caption.py:503-518  the stages before the encoding, in program order.
StageOrder == <<"extract", "transcribe", "filter">>

IsPrefix(s, t) ==
    /\ Len(s) <= Len(t)
    /\ \A i \in 1..Len(s) : s[i] = t[i]

EncodingStarted(r) ==
    \/ pc[r] \in {"hw_write", "sw_write", "sw_encode"} \cup HwMethodSet
    \/ encodeLog[r] # <<>>
    \/ filter_write_failed[r] # {}

\* C18: extraction, transcription and filter building run in that order and
\* at most once each; a stage runs only after the earlier ones succeeded; the
\* encoding starts only after all three; after the failure of one of them no
\* later stage and no encode invocation runs and process_video returns
\* failure.
C18_StagesInOrderOnce ==
    \A r \in Requests :
        /\ IsPrefix(stagesRun[r], StageOrder)
        /\ pc[r] = "pv_extract" => stagesRun[r] = <<>>
        /\ pc[r] = "pv_transcribe" =>
               /\ stagesRun[r] = <<"extract">>
               /\ audio_tool[r] = "ok" /\ verify_file_exists(audio_file)
        /\ pc[r] = "pv_filter" =>
               /\ stagesRun[r] = <<"extract", "transcribe">>
               /\ word_timings[r] = "words"
        /\ EncodingStarted(r) =>
               /\ stagesRun[r] = StageOrder
               /\ audio_tool[r] = "ok" /\ word_timings[r] = "words"
               /\ failStage[r] \notin PreEncodeStages
        /\ failStage[r] \in {"extract", "transcribe", "filter"} =>
               /\ pc[r] = "pv_returned" /\ ~success[r]
               /\ stagesRun[r] # <<>>
               /\ stagesRun[r][Len(stagesRun[r])] = failStage[r]
               /\ ~EncodingStarted(r)

\* C18 witness: extraction and transcription succeeded, building the filter
\* failed and process_video returned failure.
C18_Witness ==
    \E r \in Requests :
        /\ pc[r] = "pv_returned" /\ ~success[r]
        /\ failStage[r] = "filter"
        /\ stagesRun[r] = StageOrder

\* C19: when transcribe_audio yields no word, process_video returns failure
\* and neither the filter is built nor an encode invocation is made.
C19_NoWordsNoEncode ==
    \A r \in Requests :
        word_timings[r] = "empty" =>
            /\ pc[r] = "pv_returned" /\ ~success[r]
            /\ failStage[r] = "transcribe"
            /\ stagesRun[r] = <<"extract", "transcribe">>
            /\ ~EncodingStarted(r)

\* C19 witness: the audio was extracted, the transcription yielded no word
\* and process_video returned failure.
C19_Witness ==
    \E r \in Requests :
        /\ word_timings[r] = "empty"
        /\ audio_tool[r] = "ok" /\ verify_file_exists(audio_file)
        /\ pc[r] = "pv_returned" /\ ~success[r]

\* C20: extract_audio reports success exactly when the input video exists
\* with content, ffmpeg exited 0 and the audio file exists with nonzero
\* size; in every other case it reports failure.
C20_ExtractAudioResult ==
    \A r \in Requests :
        audio_tool[r] # "none" =>
            (failStage[r] # "extract" <=>
                /\ verify_file_exists(temp_input[r])
                /\ audio_tool[r] = "ok"
                /\ audio_file = "data")

\* C20 witness: ffmpeg exited 0 and left a zero-length audio file; the
\* extraction was reported as failed.
C20_Witness ==
    \E r \in Requests :
        /\ audio_tool[r] = "ok"
        /\ audio_file = "empty"
        /\ failStage[r] = "extract"
        /\ pc[r] = "pv_returned"

\* The words of a list are in order and each lasts: start values do not
\* decrease and end > start.
ValidTimedWords(ws) ==
    /\ \A i \in 1..Len(ws) : ws[i].end > ws[i].start
    /\ \A i \in 1..(Len(ws) - 1) : ws[i].start <= ws[i + 1].start

\* C21: a filter is built only from a word list whose starts do not
\* decrease and whose words all have end > start; no directive exists for a
\* word of zero or negative duration.
C21_InvalidTimingsRejected ==
    fl_pc # "start" =>
        /\ ValidTimedWords(timed_words)
        /\ \A i \in 1..Len(filter_complex) :
               filter_complex[i].enable[2] > filter_complex[i].enable[1]

\* C22: create_drawtext_filter gives one directive per word, in the order
\* of the words, each enabled exactly between the start and the end of its
\* word and showing the text of its word.
C22_OneDirectivePerWord ==
    fl_pc # "start" =>
        /\ Len(filter_complex) = Len(timed_words)
        /\ \A i \in 1..Len(timed_words) :
               /\ filter_complex[i].enable =
                      <<timed_words[i].start, timed_words[i].end>>
               /\ filter_complex[i].text = escape_text(timed_words[i].word)

\* C22 witness: a filter built from two different words, one of them of
\* zero duration.
C22_Witness ==
    /\ fl_pc = "built"
    /\ Len(timed_words) = 2
    /\ timed_words[1] # timed_words[2]
    /\ timed_words[2].end = timed_words[2].start
    /\ Len(filter_complex) = 2

\* C23: in every directive of a word that lasts, the fade-in ends no later
\* than the fade-out starts (each fade is at most half the duration).
C23_FadeClampedToHalfDuration ==
    \A i \in 1..Len(filter_complex) :
        LET d == filter_complex[i] IN
        d.enable[2] > d.enable[1] =>
            /\ d.alpha_in_end <= d.alpha_out_start
            /\ 2 * (d.alpha_in_end - d.enable[1]) <= d.enable[2] - d.enable[1]

\* The words of the results the recogniser handed over, in that order.
RECURSIVE Handed(_)
Handed(rs) ==
    IF rs = <<>> THEN <<>>
    ELSE (IF Head(rs).accepted /\ Head(rs).result # "no_result_key"
            THEN Head(rs).result ELSE <<>>)
         \o Handed(Tail(rs))

\* C24: the list transcribe_audio builds, and returns, is the concatenation
\* in chunk order of the word lists of the accepted partial results followed
\* by the word list of the final result; nothing is reordered, dropped or
\* deduplicated.  (When the recogniser raises, [] is returned and the job
\* fails at the transcription stage.)
C24_WordsAreConcatenation ==
    tr_pc \in {"loop", "final", "returned"} => words = Handed(rec_results)

\* C24 witness: two accepted partial results and a final result, with a
\* repeated word, were returned.
C24_Witness ==
    /\ tr_pc = "returned"
    /\ Len(rec_results) = 3
    /\ \A i \in 1..3 : rec_results[i].accepted
    /\ words = <<"w2", "w1", "w1", "w1", "w1">>

\* C25 as stated: for some threshold that a plan of one directive stays
\* under, every command line carries the plan inline when the plan is at or
\* below the threshold and names a file when it is above.
C25_Original ==
    \E T \in 1..MaxWords :
        \A i \in 1..Len(commands) :
            /\ Len(filter_complex) <= T => commands[i].option = "-filter_complex"
            /\ Len(filter_complex) > T =>
                   commands[i].option = "-filter_complex_script"

\* C25: every encoder command line, of every method and for a plan of any
\* length, names a filter file (-filter_complex_script) that holds the plan;
\* the plan is never placed on the command line.
C25_PlanAlwaysViaFile ==
    \A i \in 1..Len(commands) :
        /\ commands[i].option = "-filter_complex_script"
        /\ commands[i].arg \in {"hardware_filter.txt", "software_filter.txt"}
        /\ commands[i].text = filter_complex

\* C25 witness: a plan of one directive went through the three hardware
\* methods and the software encoder.
C25_Witness ==
    /\ fl_pc = "end"
    /\ Len(filter_complex) = 1
    /\ Len(commands) = Len(HwMethods) + 1

\* C27: the filter is the one built from the word list, it stays that one
\* after it was built, and every encoder command line, hardware or software,
\* with or without hardware attempts before it, gets exactly that text.
C27_SameFilterForEveryMethod ==
    /\ fl_pc # "start" => filter_complex = create_drawtext_filter(timed_words)
    /\ \A i \in 1..Len(commands) :
           commands[i].text = create_drawtext_filter(timed_words)
    /\ fl_pc = "hardware" => hardware_filter_text = filter_complex
    /\ fl_pc \in {"software", "end"} => software_filter_text = filter_complex

\* C27 witness: two hardware methods and then the software encoder were
\* given the filter of a two-word list.
C27_Witness ==
    /\ fl_pc = "end"
    /\ Len(timed_words) = 2
    /\ Len(commands) = 3
    /\ commands[1].m = HwMethods[1]
    /\ commands[3].m = Software
    /\ commands[1].text = commands[3].text

\* Characters that are special in the filter syntax.
SpecialChars == {"'", "\\", ":", "%"}

\* A special character stands in a text without being escaped; the escapes
\* are a backslash before the character, and for the apostrophe the form
\* that leaves the quoted string, writes the apostrophe and enters it again.
RECURSIVE HasBareSpecial(_)
HasBareSpecial(t) ==
    IF t = <<>> THEN FALSE
    ELSE IF Len(t) >= 6 /\ SubSeq(t, 1, 6) = apostrophe_replacement
      THEN HasBareSpecial(SubSeq(t, 7, Len(t)))
    ELSE IF Len(t) >= 2 /\ t[1] = "\\" /\ t[2] \in SpecialChars
      THEN HasBareSpecial(SubSeq(t, 3, Len(t)))
    ELSE IF t[1] \in SpecialChars THEN TRUE
    ELSE HasBareSpecial(Tail(t))

\* C29: in the text of every directive each apostrophe, backslash, colon
\* and percent sign is escaped, and the text is upper case.
C29_SpecialCharactersEscaped ==
    \A i \in 1..Len(filter_complex) :
        /\ ~HasBareSpecial(filter_complex[i].text)
        /\ \A j \in 1..Len(filter_complex[i].text) :
               Upper(filter_complex[i].text[j]) = filter_complex[i].text[j]

\* C26: when process_video has returned, the output of every encoder
\* invocation of the job, successful or not, is held by a file.
C26_EveryInvocationLeavesDiagnostics ==
    \A r \in Requests :
        pc[r] = "pv_returned" =>
            /\ Len(diagnostics[r]) = Len(encodeLog[r])
            /\ \A i \in 1..Len(diagnostics[r]) : diagnostics[r][i] # "none"

\* process_video has not been entered by the handler of r.
PvUntouched(r) ==
    /\ probe[r] = "none" /\ ~use_gpu[r]
    /\ stagesRun[r] = <<>> /\ audio_tool[r] = "none"
    /\ encodeLog[r] = <<>> /\ failStage[r] = "none"

\* C28: the filename is looked at before anything else is done, and a
\* request rejected for its filename (400) has created no temp file, has
\* not entered process_video, and has reset the flag: when the flag is set
\* again, another request holds it.
C28_BadFilenameRejectedEarly ==
    \A r \in Requests :
        (pc[r] = "validate" \/ (pc[r] = "done" /\ response[r] = "400")) =>
            /\ temp_input[r] = "absent" /\ temp_output[r] = "absent"
            /\ PvUntouched(r)
            /\ pc[r] = "done" =>
                   (processing_in_progress =>
                       \E q \in Requests \ {r} : pc[q] \in HandlerPcs)

\* C28 witness: a request was answered 400 and the flag is free.
C28_Witness ==
    \E r \in Requests :
        /\ pc[r] = "done" /\ response[r] = "400"
        /\ ~processing_in_progress

\* C30: whenever a request is admitted, no temp file of another job is left
\* on disk.
C30_AdmittedOnlyAfterCleanup ==
    \A q \in Requests :
        pc[q] \in HandlerPcs =>
            \A r \in Requests \ {q} :
                temp_input[r] = "absent" /\ temp_output[r] = "absent"

\* C31: while the FileResponse of /caption/video is being sent, the output
\* file it names still exists, and the client receives the body.
C31_OutputExistsWhenSent ==
    \A r \in Requests :
        /\ app_pc[r] = "send" => app_output[r] # "absent"
        /\ app_result[r] # "missing_file"

\* C32: when hardware_filter.txt could not be written, no hardware method
\* is invoked and process_video goes on into the software block, which it
\* leaves only by that block's own result; when software_filter.txt could
\* not be written, the software encoder is not invoked and process_video
\* returns failure.
C32_FilterWriteFailures ==
    \A r \in Requests :
        /\ "hardware_filter" \in filter_write_failed[r] =>
               /\ HwLog(r) = <<>>
               /\ pc[r] \in {"sw_write", "sw_encode", "blocked", "pv_returned"}
               /\ pc[r] = "pv_returned" =>
                      \/ Len(SwLog(r)) = 1
                      \/ "software_filter" \in filter_write_failed[r]
        /\ "software_filter" \in filter_write_failed[r] =>
               /\ SwLog(r) = <<>>
               /\ pc[r] = "pv_returned" /\ ~success[r]
               /\ failStage[r] = "software"

\* C32 witness: neither filter file could be written; no encoder was
\* invoked and process_video returned failure.
C32_Witness ==
    \E r \in Requests :
        /\ filter_write_failed[r] = {"hardware_filter", "software_filter"}
        /\ encodeLog[r] = <<>>
        /\ pc[r] = "pv_returned" /\ ~success[r]

====
